---- MODULE Spec2Model ----
(***************************************************************************)
(* Model of tools/embark-oss/src/validate.rs: the `all` and `one`          *)
(* validation runs, the per-project CODEOWNERS lookup with its main/master *)
(* fallback, the status report and the Slack notification.                 *)
(*                                                                         *)
(* Option<T> is a sequence of length at most one (None == <<>>), a         *)
(* Result<T, Report> is a record [ok, val, err] where err is the report's  *)
(* cause chain, outermost context first.                                   *)
(***************************************************************************)
EXTENDS Integers, Sequences, FiniteSets, TLC

\* ---------------------------------------------------------------- bounds
MaxProjects == 2

\* ------------------------------------------------------- input alphabets
Names == {"ark", "rpmalloc"}
Branches == {"main", "master"}
FetchFailures == {"not_found", "network", "access"}
Urls == {"hook"}

None == <<>>
Some(x) == <<x>>

Ok(v) == [ok |-> TRUE, val |-> v, err |-> <<>>]
Err(chain) == [ok |-> FALSE, val |-> {}, err |-> chain]
wrap_err(r, msg) == IF r.ok THEN r ELSE [r EXCEPT !.err = <<msg>> \o r.err]

SeqsUpTo(S, n) == UNION {[1..k -> S] : k \in 0..n}

\* ------------------------------------------- CODEOWNERS text and parser
\* A line is its sequence of whitespace-separated tokens.
\* The sample documents the content provider may serve.
Texts ==
    { << <<"#", "owners">>, <<>>, <<"*", "@alice">>, <<"*", "@alice", "@bob">> >>,
      << <<"docs", "@bob">> >>,
      << <<"*", "@alice">>, <<"docs">> >> }

IsIgnoredLine(line) == line = <<>> \/ line[1] = "#"

Assignment_new(line) ==
    IF Len(line) < 2
    THEN Err(<<<<"parse", line[1]>>>>)
    ELSE Ok([pattern |-> line[1],
             owners |-> {line[k] : k \in 2..Len(line)}])

RECURSIVE ParseLines(_, _)
ParseLines(text, acc) ==
    IF text = <<>> THEN [ok |-> TRUE, val |-> acc, err |-> <<>>]
    ELSE IF IsIgnoredLine(Head(text)) THEN ParseLines(Tail(text), acc)
    ELSE LET a == Assignment_new(Head(text))
         IN  IF a.ok THEN ParseLines(Tail(text), Append(acc, a.val))
             ELSE [ok |-> FALSE, val |-> <<>>, err |-> a.err]

CodeOwners_new(text) == ParseLines(text, <<>>)

primary_maintainers(rules) ==
    LET stars == {k \in 1..Len(rules) : rules[k].pattern = "*"}
    IN  IF stars = {} THEN None
        ELSE Some(rules[CHOOSE k \in stars : \A j \in stars : j <= k].owners)

\* ------------------------------------------------------------- Project
not_yet_checked == Err(<<<<"This property has not yet been validated">>>>)

\* Variant of Project::new: the project starts as checked, with no maintainers.
Project_new_checked(name) == [name |-> name, maintainers |-> Ok({})]

Project_new(name) == [name |-> name, maintainers |-> not_yet_checked]

from_website_project(project) == Project_new(project.name)

\* Variant of has_errors: a project that was never validated has no errors.
has_errors_if_validated(p) ==
    ~p.maintainers.ok /\ p.maintainers # not_yet_checked

has_errors(p) == ~p.maintainers.ok

errors(p) == IF p.maintainers.ok THEN <<>> ELSE <<p.maintainers.err>>

cause_string(chain, indent) ==
    [k \in 1..Len(chain) |->
        [depth |-> IF indent THEN k - 1 ELSE 0, msg |-> chain[k]]]

RECURSIVE JoinLines(_)
JoinLines(ss) == IF ss = <<>> THEN <<>> ELSE Head(ss) \o JoinLines(Tail(ss))

errors_to_string(p, indent) ==
    LET es == errors(p)
    IN  IF es = <<>> THEN None
        ELSE Some(JoinLines([k \in 1..Len(es) |-> cause_string(es[k], indent)]))

\* Variant of maintainers_from_text: a parse failure is swallowed and the
\* rules read so far are searched for a `*` rule.
maintainers_from_text_lenient(text) ==
    LET good == SelectSeq(text, LAMBDA l : IsIgnoredLine(l) \/ Len(l) >= 2)
        pm == primary_maintainers(CodeOwners_new(good).val)
    IN  IF pm = None
        THEN Err(<<<<"No maintainers were found for * the CODEOWNERS file">>>>)
        ELSE Ok(pm[1])

\* Variant of maintainers_from_text: a document without a `*` rule yields
\* the default (empty) set instead of an error.
maintainers_from_text_or_default(text) ==
    LET parsed == wrap_err(CodeOwners_new(text),
                           <<"Unable to determine maintainers">>)
    IN  IF ~parsed.ok THEN Err(parsed.err)
        ELSE LET pm == primary_maintainers(parsed.val)
             IN  IF pm = None THEN Ok({}) ELSE Ok(pm[1])

\* The part of lookup_project_maintainers after the text has been fetched.
maintainers_from_text(text) ==
    LET parsed == wrap_err(CodeOwners_new(text),
                           <<"Unable to determine maintainers">>)
    IN  IF ~parsed.ok THEN Err(parsed.err)
        ELSE LET pm == primary_maintainers(parsed.val)
             IN  IF pm = None
                 THEN Err(<<<<"No maintainers were found for * the CODEOWNERS file">>>>)
                 ELSE Ok(pm[1])

\* `?` applied to the fetch result, then the parsing tail.
maintainers_from_fetch(r) ==
    IF r.ok THEN maintainers_from_text(r.text) ELSE Err(r.err)

\* Project::validate: a new Project with the same name and the looked-up
\* maintainers.
validate(self, maintainers) == [name |-> self.name, maintainers |-> maintainers]

\* ------------------------------------------------- content provider I/O
FetchOk(text) == [ok |-> TRUE, text |-> text, err |-> <<>>]
FetchErr(branch, kind) ==
    [ok |-> FALSE, text |-> <<>>, err |-> <<<<"fetch", branch, kind>>>>]

FetchResults(branch) ==
    {FetchOk(t) : t \in Texts} \cup {FetchErr(branch, k) : k \in FetchFailures}

ListOk(names) == [ok |-> TRUE, projects |-> [k \in 1..Len(names) |-> [name |-> names[k]]],
                  err |-> <<>>]
ListErr(kind) == [ok |-> FALSE, projects |-> <<>>,
                  err |-> <<<<"fetch", "data.json", kind>>>>]

ListResults ==
    {ListOk(ns) : ns \in SeqsUpTo(Names, MaxProjects)}
    \cup {ListErr(k) : k \in FetchFailures \cup {"json"}}

\* ----------------------------------------------------------- rendering
print_status(project) ==
    LET es == errors_to_string(project, TRUE)
    IN  IF es # None
        THEN [mark |-> "fail", name |-> project.name, maintainers |-> {},
              errors |-> es[1]]
        ELSE IF project.maintainers.ok
        THEN [mark |-> "pass", name |-> project.name,
              maintainers |-> project.maintainers.val, errors |-> <<>>]
        ELSE [mark |-> "unreachable", name |-> project.name, maintainers |-> {},
              errors |-> <<>>]

Divider == [type |-> "Divider", text |-> "", name |-> "", error |-> <<>>]
Text(kind) == [type |-> "Text", text |-> kind, name |-> "", error |-> <<>>]

slack_project_block(project) ==
    LET e == errors_to_string(project, FALSE)
    IN  IF e = None THEN None
        ELSE Some([type |-> "Text", text |-> "project", name |-> project.name,
                   error |-> e[1]])

RECURSIVE FlatMapBlocks(_)
FlatMapBlocks(ps) ==
    IF ps = <<>> THEN <<>>
    ELSE slack_project_block(Head(ps)) \o FlatMapBlocks(Tail(ps))

\* Variant of slack_notification_blocks: each project block is put in front
\* of the ones already there.
RECURSIVE FlatMapBlocksFront(_)
FlatMapBlocksFront(ps) ==
    IF ps = <<>> THEN <<>>
    ELSE FlatMapBlocksFront(Tail(ps)) \o slack_project_block(Head(ps))

slack_notification_blocks_front(ps) ==
    <<Text("head"), Divider>> \o FlatMapBlocksFront(ps)
        \o <<Divider, Text("foot")>>

slack_notification_blocks(ps) ==
    <<Text("head"), Divider>> \o FlatMapBlocks(ps) \o <<Divider, Text("foot")>>

\* Variant of problem_projects_of: only the first project is looked at.
problem_projects_of_first(ps) ==
    IF ps # <<>> /\ has_errors(Head(ps)) THEN <<Head(ps)>> ELSE <<>>

problem_projects_of(ps) == SelectSeq(ps, has_errors)

\* Variant of join_all: outputs collected in completion order.
join_all_unordered(fs, order) == [k \in 1..Len(fs) |-> fs[order[k]].self]

\* join_all: the outputs of the futures, by position in the input.
join_all(fs, order) == [k \in 1..Len(fs) |-> fs[k].self]

\* Variant of or_else: `master` is tried only when `main` was not found; any
\* other failure of `main` is the result.
or_else_if_not_found(r) ==
    IF r.ok THEN "done"
    ELSE IF r.err[1][3] = "not_found" THEN "master" ELSE "done"

\* Variant of or_else: and_then, which goes on after a success instead.
and_then(r) == IF r.ok THEN "master" ELSE "done"

\* TryFutureExt::or_else on the result of get("main"): a success is the
\* result, a failure is dropped and get("master") is awaited instead.
or_else(r) == IF r.ok THEN "done" ELSE "master"

\* ---------------------------------------------------------------- state
VARIABLES
    mode,               \* "all" or "one": which entry point runs
    slack_webhook_url,  \* Option<String> argument of `all`
    project_name,       \* Option<String>: argument of `one`
    pc,                 \* position of the run
    list_response,      \* Option: what the request for data.json returned
    futures,            \* one validate() future per project
    responses,          \* per future and branch: Option of the fetch result
    completed,          \* indices of futures in completion order
    fetches,            \* per future: how often each branch was requested
    list_fetches,       \* how often data.json was requested
    projects,           \* the joined, validated projects
    stdout,             \* status lines printed so far
    problem_projects,   \* the projects filtered as failing
    webhook_calls,      \* payloads handed to slack::send_webhook
    webhook_response,   \* Option<bool>: whether send_webhook succeeded
    result              \* Option<Result<()>>: the run's return value

vars == <<mode, slack_webhook_url, project_name, pc, list_response, futures,
          responses, completed, fetches, list_fetches, projects, stdout,
          problem_projects, webhook_calls, webhook_response, result>>

NoFetches == [b \in Branches |-> 0]
NoResponses == [b \in Branches |-> None]
\* What is kept of a fetch result: whether it succeeded, and the text.
Seen(r) == [ok |-> r.ok, text |-> r.text]

\* The project names of data.json, once it has been downloaded.
downloaded == list_response # None /\ list_response[1].ok
data == IF downloaded
        THEN [k \in 1..Len(list_response[1].projects) |->
                  list_response[1].projects[k].name]
        ELSE <<>>

Init ==
    /\ mode \in {"all", "one"}
    /\ slack_webhook_url \in {None} \cup {Some(u) : u \in Urls}
    /\ project_name \in {None} \cup {Some(n) : n \in Names}
    /\ mode = "all" => project_name = None
    /\ mode = "one" => project_name # None /\ slack_webhook_url = None
    /\ pc = "start"
    /\ list_response = None
    /\ futures = <<>>
    /\ responses = <<>>
    /\ completed = <<>>
    /\ fetches = <<>>
    /\ list_fetches = 0
    /\ projects = <<>>
    /\ stdout = <<>>
    /\ problem_projects = <<>>
    /\ webhook_calls = <<>>
    /\ webhook_response = None
    /\ result = None

\* First poll of a validate() future: get("main") is requested.
spawn(project) == [self |-> project, pc |-> "main"]
first_poll == [NoFetches EXCEPT !["main"] = 1]

\* `all` is entered: download_projects_list requests data.json.
AllStart ==
    /\ mode = "all" /\ pc = "start"
    /\ list_fetches' = list_fetches + 1
    /\ pc' = "download"
    /\ UNCHANGED <<mode, slack_webhook_url, project_name, list_response,
                   futures, responses, completed, fetches, projects, stdout,
                   problem_projects, webhook_calls, webhook_response, result>>

\* Variant of ListResponse: a failed download counts as an empty list.
ListResponse_or_default ==
    /\ pc = "download"
    /\ \E r \in ListResults :
        /\ list_response' = Some(r)
        /\ futures' = [k \in 1..Len(r.projects) |->
                           spawn(from_website_project(r.projects[k]))]
        /\ responses' = [k \in 1..Len(r.projects) |-> NoResponses]
        /\ fetches' = [k \in 1..Len(r.projects) |-> first_poll]
        /\ pc' = "join"
        /\ UNCHANGED result
    /\ UNCHANGED <<mode, slack_webhook_url, project_name, completed,
                   list_fetches, projects, stdout, problem_projects,
                   webhook_calls, webhook_response>>

\* data.json arrives (or fails): on failure `?` returns the wrapped error;
\* otherwise one future per project is created and join_all polls them all.
ListResponse ==
    /\ pc = "download"
    /\ \E r \in ListResults :
        /\ list_response' = Some(r)
        /\ IF ~r.ok
           THEN /\ result' = Some(wrap_err(Err(r.err),
                       <<"Unable to get list of open source Embark projects">>))
                /\ pc' = "done"
                /\ UNCHANGED <<futures, responses, fetches>>
           ELSE /\ futures' = [k \in 1..Len(r.projects) |->
                                   spawn(from_website_project(r.projects[k]))]
                /\ responses' = [k \in 1..Len(r.projects) |-> NoResponses]
                /\ fetches' = [k \in 1..Len(r.projects) |-> first_poll]
                /\ pc' = "join"
                /\ UNCHANGED result
    /\ UNCHANGED <<mode, slack_webhook_url, project_name, completed,
                   list_fetches, projects, stdout, problem_projects,
                   webhook_calls, webhook_response>>

\* `one` is entered: the named project is created and its validate() polled.
OneStart ==
    /\ mode = "one" /\ pc = "start"
    /\ futures' = <<spawn(Project_new(project_name[1]))>>
    /\ responses' = <<NoResponses>>
    /\ fetches' = <<first_poll>>
    /\ pc' = "join"
    /\ UNCHANGED <<mode, slack_webhook_url, project_name, list_response,
                   completed, list_fetches, projects, stdout, problem_projects,
                   webhook_calls, webhook_response, result>>

Complete(i, maintainers) ==
    /\ futures' = [futures EXCEPT ![i] =
                      [self |-> validate(futures[i].self, maintainers),
                       pc |-> "done"]]
    /\ completed' = Append(completed, i)

\* Variant of MainResponse: the futures are awaited one after the other, a
\* future is polled only when all before it are done.
MainResponse_sequential(i) ==
    /\ pc = "join" /\ i \in 1..Len(futures) /\ futures[i].pc = "main"
    /\ \A j \in 1..(i - 1) : futures[j].pc = "done"
    /\ \E r \in FetchResults("main") :
        /\ responses' = [responses EXCEPT ![i]["main"] = Some(Seen(r))]
        /\ IF or_else(r) = "done"
           THEN /\ Complete(i, maintainers_from_fetch(r))
                /\ UNCHANGED fetches
           ELSE /\ futures' = [futures EXCEPT ![i].pc = "master"]
                /\ fetches' = [fetches EXCEPT ![i]["master"] = @ + 1]
                /\ UNCHANGED completed
    /\ UNCHANGED <<mode, slack_webhook_url, project_name, pc, list_response,
                   list_fetches, projects, stdout, problem_projects,
                   webhook_calls, webhook_response, result>>

\* The response to get("main") of future i: success goes on to parsing,
\* failure is dropped by or_else and get("master") is requested.
MainResponse(i) ==
    /\ pc = "join" /\ i \in 1..Len(futures) /\ futures[i].pc = "main"
    /\ \E r \in FetchResults("main") :
        /\ responses' = [responses EXCEPT ![i]["main"] = Some(Seen(r))]
        /\ IF or_else(r) = "done"
           THEN /\ Complete(i, maintainers_from_fetch(r))
                /\ UNCHANGED fetches
           ELSE /\ futures' = [futures EXCEPT ![i].pc = "master"]
                /\ fetches' = [fetches EXCEPT ![i]["master"] = @ + 1]
                /\ UNCHANGED completed
    /\ UNCHANGED <<mode, slack_webhook_url, project_name, pc, list_response,
                   list_fetches, projects, stdout, problem_projects,
                   webhook_calls, webhook_response, result>>

\* Variant of MasterResponse: a failed `master` fetch is requested once more.
MasterResponse_retry(i) ==
    /\ pc = "join" /\ i \in 1..Len(futures) /\ futures[i].pc = "master"
    /\ \E r \in FetchResults("master") :
        IF ~r.ok /\ fetches[i]["master"] < 2
        THEN /\ fetches' = [fetches EXCEPT ![i]["master"] = @ + 1]
             /\ UNCHANGED <<futures, responses, completed>>
        ELSE /\ responses' = [responses EXCEPT ![i]["master"] = Some(Seen(r))]
             /\ Complete(i, maintainers_from_fetch(r))
             /\ UNCHANGED fetches
    /\ UNCHANGED <<mode, slack_webhook_url, project_name, pc, list_response,
                   list_fetches, projects, stdout, problem_projects,
                   webhook_calls, webhook_response, result>>

\* The response to get("master") of future i.
MasterResponse(i) ==
    /\ pc = "join" /\ i \in 1..Len(futures) /\ futures[i].pc = "master"
    /\ \E r \in FetchResults("master") :
        /\ responses' = [responses EXCEPT ![i]["master"] = Some(Seen(r))]
        /\ Complete(i, maintainers_from_fetch(r))
    /\ UNCHANGED <<mode, slack_webhook_url, project_name, pc, list_response,
                   fetches, list_fetches, projects, stdout, problem_projects,
                   webhook_calls, webhook_response, result>>

\* Variant of AllDone: the join returns only when every future succeeded.
AllDone_all_ok ==
    \A k \in 1..Len(futures) :
        futures[k].pc = "done" /\ ~has_errors(futures[k].self)

\* Variant of AllDone: the join also returns at the first failed future.
AllDone_fail_fast ==
    \/ \A k \in 1..Len(futures) : futures[k].pc = "done"
    \/ \E k \in 1..Len(futures) :
          futures[k].pc = "done" /\ has_errors(futures[k].self)

AllDone == \A k \in 1..Len(futures) : futures[k].pc = "done"

\* join_all (or the single await of `one`) returns once every future is done.
JoinAll ==
    /\ pc = "join" /\ AllDone
    /\ projects' = join_all(futures, completed)
    /\ pc' = "print"
    /\ UNCHANGED <<mode, slack_webhook_url, project_name, list_response,
                   futures, responses, completed, fetches, list_fetches, stdout,
                   problem_projects, webhook_calls, webhook_response, result>>

\* Variant of PrintStatus: printing takes the outcome out of the project and
\* leaves the initial value behind.
PrintStatus_taking ==
    /\ pc = "print" /\ Len(stdout) < Len(projects)
    /\ stdout' = Append(stdout, print_status(projects[Len(stdout) + 1]))
    /\ projects' = [projects EXCEPT ![Len(stdout) + 1].maintainers =
                                        not_yet_checked]
    /\ UNCHANGED <<mode, slack_webhook_url, project_name, pc, list_response,
                   futures, responses, completed, fetches, list_fetches,
                   problem_projects, webhook_calls, webhook_response, result>>

\* Variant of PrintStatus: a line is printed as soon as it is its turn,
\* without waiting for the join.
PrintStatus_streaming ==
    /\ pc \in {"join", "print"} /\ Len(stdout) < Len(futures)
    /\ stdout' = Append(stdout, print_status(futures[Len(stdout) + 1].self))
    /\ UNCHANGED <<mode, slack_webhook_url, project_name, pc, list_response,
                   futures, responses, completed, fetches, list_fetches,
                   projects, problem_projects, webhook_calls, webhook_response,
                   result>>

\* One iteration of projects.iter().for_each(print_status), or the single
\* print_status call of `one`.
PrintStatus ==
    /\ pc = "print" /\ Len(stdout) < Len(projects)
    /\ stdout' = Append(stdout, print_status(projects[Len(stdout) + 1]))
    /\ UNCHANGED <<mode, slack_webhook_url, project_name, pc, list_response,
                   futures, responses, completed, fetches, list_fetches,
                   projects, problem_projects, webhook_calls, webhook_response, result>>

NotAllConform == Err(<<<<"Not all projects conform to our guidelines">>>>)
DeliveryFailed == Err(<<<<"webhook delivery failed">>>>)

\* Variant of AllCollect: filtering and notifying do not wait for the
\* status lines, and returning ends the printing.
AllCollect_before_print ==
    /\ mode = "all" /\ pc = "print"
    /\ LET problems == problem_projects_of(projects)
       IN  /\ problem_projects' = problems
           /\ IF problems = <<>>
              THEN /\ result' = Some(Ok({}))
                   /\ pc' = "done"
                   /\ UNCHANGED webhook_calls
              ELSE IF slack_webhook_url # None
              THEN /\ webhook_calls' = Append(webhook_calls,
                          [url |-> slack_webhook_url[1],
                           blocks |-> slack_notification_blocks(problems)])
                   /\ pc' = "send"
                   /\ UNCHANGED result
              ELSE /\ result' = Some(NotAllConform)
                   /\ pc' = "done"
                   /\ UNCHANGED webhook_calls
    /\ UNCHANGED <<mode, slack_webhook_url, project_name, list_response,
                   futures, responses, completed, fetches, list_fetches,
                   projects, stdout, webhook_response>>

\* Variant of AllCollect: the webhook is requested whenever a URL was given,
\* before the failing projects are looked at.
AllCollect_notify_always ==
    /\ mode = "all" /\ pc = "print" /\ Len(stdout) = Len(projects)
    /\ LET problems == problem_projects_of(projects)
       IN  /\ problem_projects' = problems
           /\ IF slack_webhook_url # None
              THEN /\ webhook_calls' = Append(webhook_calls,
                          [url |-> slack_webhook_url[1],
                           blocks |-> slack_notification_blocks(problems)])
                   /\ pc' = "send"
                   /\ UNCHANGED result
              ELSE /\ result' = Some(IF problems = <<>> THEN Ok({})
                                     ELSE NotAllConform)
                   /\ pc' = "done"
                   /\ UNCHANGED webhook_calls
    /\ UNCHANGED <<mode, slack_webhook_url, project_name, list_response,
                   futures, responses, completed, fetches, list_fetches,
                   projects, stdout, webhook_response>>

\* `all` after printing: filter the failing projects, return Ok if there are
\* none, request the webhook if a URL was given, otherwise return the error.
AllCollect ==
    /\ mode = "all" /\ pc = "print" /\ Len(stdout) = Len(projects)
    /\ LET problems == problem_projects_of(projects)
       IN  /\ problem_projects' = problems
           /\ IF problems = <<>>
              THEN /\ result' = Some(Ok({}))
                   /\ pc' = "done"
                   /\ UNCHANGED webhook_calls
              ELSE IF slack_webhook_url # None
              THEN /\ webhook_calls' = Append(webhook_calls,
                          [url |-> slack_webhook_url[1],
                           blocks |-> slack_notification_blocks(problems)])
                   /\ pc' = "send"
                   /\ UNCHANGED result
              ELSE /\ result' = Some(NotAllConform)
                   /\ pc' = "done"
                   /\ UNCHANGED webhook_calls
    /\ UNCHANGED <<mode, slack_webhook_url, project_name, list_response,
                   futures, responses, completed, fetches, list_fetches,
                   projects, stdout, webhook_response>>

\* slack::send_webhook returns: a delivery failure is returned by `?`.
WebhookResponse ==
    /\ pc = "send"
    /\ \E sent \in BOOLEAN :
        /\ webhook_response' = Some(sent)
        /\ result' = Some(IF sent THEN NotAllConform ELSE DeliveryFailed)
    /\ pc' = "done"
    /\ UNCHANGED <<mode, slack_webhook_url, project_name, list_response,
                   futures, responses, completed, fetches, list_fetches,
                   projects, stdout, problem_projects, webhook_calls>>

\* Variant of OneReturn: the result does not look at the project.
OneReturn_always_ok ==
    /\ mode = "one" /\ pc = "print" /\ Len(stdout) = Len(projects)
    /\ result' = Some(Ok({}))
    /\ pc' = "done"
    /\ UNCHANGED <<mode, slack_webhook_url, project_name, list_response,
                   futures, responses, completed, fetches, list_fetches,
                   projects, stdout, problem_projects, webhook_calls,
                   webhook_response>>

\* `one` after printing: the result follows has_errors.
OneReturn ==
    /\ mode = "one" /\ pc = "print" /\ Len(stdout) = Len(projects)
    /\ result' = Some(IF has_errors(projects[1])
                      THEN Err(<<<<"The project does not conform to our guidelines">>>>)
                      ELSE Ok({}))
    /\ pc' = "done"
    /\ UNCHANGED <<mode, slack_webhook_url, project_name, list_response,
                   futures, responses, completed, fetches, list_fetches,
                   projects, stdout, problem_projects, webhook_calls, webhook_response>>

Next ==
    \/ AllStart
    \/ ListResponse
    \/ OneStart
    \/ \E i \in 1..MaxProjects : MainResponse(i)
    \/ \E i \in 1..MaxProjects : MasterResponse(i)
    \/ JoinAll
    \/ PrintStatus
    \/ AllCollect
    \/ WebhookResponse
    \/ OneReturn

Spec == Init /\ [][Next]_vars

\* The run under the assumption that whatever is awaited (data.json, a
\* CODEOWNERS file, the webhook) eventually returns, and that the run goes on
\* whenever it can.
FairSpec == Spec /\ WF_vars(Next)

\* ============================================================ properties
\* The run is past the join (and, for `all`, data.json was downloaded).
Joined == pc \in {"print", "send", "done"} /\ (mode = "all" => downloaded)

\* C1: once `all` has joined its futures, there is exactly one validated
\* Project per project of data.json, at the position of its input: the
\* lengths agree, projects[k] carries the k-th input name and is the output
\* of the k-th future, whatever the completion order was.
C1_JoinKeepsInputOrder ==
    (mode = "all" /\ Joined) =>
        /\ Len(projects) = Len(data)
        /\ \A k \in 1..Len(data) :
              /\ projects[k].name = data[k]
              /\ projects[k] = futures[k].self
              /\ projects[k].maintainers # not_yet_checked

\* C1 witness: two differently named projects, the second finished first,
\* and their outcomes differ.
C1_Witness ==
    /\ mode = "all" /\ pc = "print"
    /\ Len(data) = 2 /\ data[1] # data[2]
    /\ completed = <<2, 1>>
    /\ projects[1].maintainers # projects[2].maintainers

\* C2: a failed future cancels nothing: the run leaves the join only when
\* every future is done, no status line is printed before that, and once
\* `all` is past printing there is exactly one status line per project of
\* data.json, the k-th line naming the k-th project.
C2_FailureDoesNotCancelSiblings ==
    /\ (pc \in {"print", "send", "done"} \/ stdout # <<>>) =>
          \A k \in 1..Len(futures) : futures[k].pc = "done"
    /\ (mode = "all" /\ pc \in {"send", "done"}) =>
          /\ Len(stdout) = Len(data)
          /\ \A k \in 1..Len(data) : stdout[k].name = data[k]

\* C2 witness: the future that finished first failed, its sibling went on to
\* succeed, and both lines were printed.
C2_Witness ==
    /\ mode = "all" /\ pc = "done" /\ Len(data) = 2
    /\ ~projects[completed[1]].maintainers.ok
    /\ projects[completed[2]].maintainers.ok
    /\ Len(stdout) = 2

\* C2 witness: every project failed and every project has its line.
C2_WitnessAllFail ==
    /\ mode = "all" /\ pc = "done" /\ Len(data) = 2
    /\ \A k \in 1..2 : ~projects[k].maintainers.ok /\ stdout[k].mark = "fail"

\* C3: every future requests `main` exactly once and first; `master` is
\* requested (once) iff the `main` response was a failure. A future that is
\* done after a successful `main` response carries the outcome of the `main`
\* text and never got a `master` response; after a failed `main` and a
\* successful `master` it carries the outcome of the `master` text; after two
\* failures its error is the `master` fetch failure alone.
C3_MainThenMaster ==
    \A k \in 1..Len(futures) :
        LET f == futures[k]
            main == responses[k]["main"]
            master == responses[k]["master"]
            m == f.self.maintainers
        IN  /\ fetches[k]["main"] = 1
            /\ fetches[k]["master"] = IF main # None /\ ~main[1].ok THEN 1 ELSE 0
            /\ master # None => main # None /\ ~main[1].ok
            /\ f.pc = "done" =>
                  /\ main # None
                  /\ main[1].ok =>
                        master = None /\ m = maintainers_from_text(main[1].text)
                  /\ ~main[1].ok =>
                        /\ master # None
                        /\ master[1].ok => m = maintainers_from_text(master[1].text)
                        /\ ~master[1].ok =>
                              /\ ~m.ok /\ Len(m.err) = 1
                              /\ m.err[1][1] = "fetch" /\ m.err[1][2] = "master"
                              /\ m.err[1][3] \in FetchFailures

\* C3 witness: `main` failed and `master` delivered a document that was used.
C3_Witness ==
    \E k \in 1..Len(futures) :
        /\ futures[k].pc = "done"
        /\ ~responses[k]["main"][1].ok
        /\ responses[k]["master"][1].ok
        /\ futures[k].self.maintainers.ok

\* C3 witness: both branches failed.
C3_WitnessBothFail ==
    \E k \in 1..Len(futures) :
        /\ futures[k].pc = "done"
        /\ ~responses[k]["main"][1].ok
        /\ ~responses[k]["master"][1].ok
        /\ futures[k].self.maintainers.err = <<<<"fetch", "master", "network">>>>

\* C4: when data.json was downloaded and `all` has returned, the result is
\* Ok iff every project's outcome is Ok.
C4_PassIffAllOk ==
    (mode = "all" /\ pc = "done" /\ downloaded) =>
        /\ result # None
        /\ result[1].ok <=> \A k \in 1..Len(futures) : futures[k].self.maintainers.ok

\* C4 witness: a run over two projects, the first passing and the second
\* failing, has returned an error.
C4_Witness ==
    /\ mode = "all" /\ pc = "done" /\ Len(data) = 2
    /\ futures[1].self.maintainers.ok /\ ~futures[2].self.maintainers.ok
    /\ ~result[1].ok

\* C4 witness: a run over the empty list has returned Ok.
C4_WitnessEmpty ==
    /\ mode = "all" /\ pc = "done" /\ downloaded /\ data = <<>>
    /\ result = Some(Ok({}))
\* Some future holds a project whose outcome is not Ok.
SomeProjectFailed == \E k \in 1..Len(futures) : ~futures[k].self.maintainers.ok

\* C5: the webhook is requested at most once, and only in an `all` run with
\* a URL and at least one failed project; a finished `all` run that had a
\* URL and a failed project has requested it.
C5_NotifyIffFailuresAndUrl ==
    /\ Len(webhook_calls) <= 1
    /\ webhook_calls # <<>> =>
          /\ mode = "all" /\ downloaded /\ pc \in {"send", "done"}
          /\ slack_webhook_url # None /\ SomeProjectFailed
          /\ webhook_calls[1].url = slack_webhook_url[1]
    /\ (mode = "all" /\ downloaded /\ pc \in {"send", "done"}
          /\ slack_webhook_url # None /\ SomeProjectFailed) =>
          Len(webhook_calls) = 1

\* C5 witness: a URL is configured, every project passed, the run is over and
\* nothing was sent.
C5_Witness ==
    /\ mode = "all" /\ pc = "done" /\ slack_webhook_url # None
    /\ Len(data) = 2 /\ ~SomeProjectFailed
    /\ webhook_calls = <<>>

\* C5 witness: a URL is configured, a project failed, the webhook was
\* requested once.
C5_WitnessSent ==
    /\ mode = "all" /\ pc = "done" /\ slack_webhook_url # None
    /\ SomeProjectFailed /\ Len(webhook_calls) = 1

\* The fetch result future k goes on with: `main` if it succeeded, otherwise
\* `master`.
UsedResponse(k) ==
    IF responses[k]["main"] # None /\ responses[k]["main"][1].ok
    THEN responses[k]["main"]
    ELSE responses[k]["master"]

\* C6: a future that is done has an Ok outcome iff the response it used was a
\* success whose text parses and has a primary-maintainer set, and that set
\* is not empty; no project anywhere carries an Ok outcome with an empty set.
C6_OkMeansNonEmptyMaintainers ==
    /\ \A k \in 1..Len(futures) :
          LET m == futures[k].self.maintainers
              u == UsedResponse(k)
              parsed == CodeOwners_new(u[1].text)
              pm == primary_maintainers(parsed.val)
          IN  /\ futures[k].pc # "done" => ~m.ok
              /\ futures[k].pc = "done" =>
                    (m.ok <=>
                       /\ u # None /\ u[1].ok
                       /\ parsed.ok
                       /\ pm # None
                       /\ pm[1] # {})
              /\ m.ok => m.val # {}
    /\ \A k \in 1..Len(projects) :
          projects[k].maintainers.ok => projects[k].maintainers.val # {}

\* C6 witness: one future ended Ok with two maintainers, another fetched a
\* document without a `*` rule and ended Err.
C6_Witness ==
    /\ Len(futures) = 2
    /\ futures[1].self.maintainers = Ok({"@alice", "@bob"})
    /\ futures[2].pc = "done"
    /\ UsedResponse(2) = Some([ok |-> TRUE, text |-> << <<"docs", "@bob">> >>])
    /\ ~futures[2].self.maintainers.ok
\* C7: a Project's outcome is written once. A future is created holding the
\* "not yet validated" error and keeps it until it is done; the step that
\* makes it done is the only one that changes its outcome, changes no other
\* future, and never changes a name; a done future and the joined projects
\* are never changed again by printing, filtering or notifying.
C7_OutcomeWriteOnce ==
    [][ /\ Len(futures) > 0 => Len(futures') = Len(futures)
        /\ \A k \in 1..Len(futures') :
              /\ futures'[k].pc # "done" =>
                    futures'[k].self.maintainers =
                        Err(<<<<"This property has not yet been validated">>>>)
              /\ futures'[k].pc = "done" =>
                    futures'[k].self.maintainers #
                        Err(<<<<"This property has not yet been validated">>>>)
        /\ \A k \in 1..Len(futures) :
              /\ futures'[k].self.name = futures[k].self.name
              /\ futures[k].pc = "done" => futures'[k] = futures[k]
              /\ futures'[k].self # futures[k].self =>
                    /\ futures[k].pc # "done" /\ futures'[k].pc = "done"
                    /\ \A j \in 1..Len(futures) \ {k} : futures'[j] = futures[j]
        /\ projects # <<>> => projects' = projects
        /\ projects' # projects =>
              projects' = [k \in 1..Len(futures) |-> futures[k].self]
      ]_vars

\* C7 witness: the run is over, two projects were validated with different
\* outcomes, printed and filtered, and a notification was built.
C7_Witness ==
    /\ pc = "done" /\ Len(projects) = 2 /\ Len(stdout) = 2
    /\ projects[1].maintainers.ok /\ ~projects[2].maintainers.ok
    /\ Len(problem_projects) = 1 /\ Len(webhook_calls) = 1

\* C8: once the download of data.json has failed the run is over with that
\* error (under its context message): no future exists, no CODEOWNERS file
\* was requested, nothing was printed and the webhook was not requested.
C8_ListFailureIsFatal ==
    (list_response # None /\ ~list_response[1].ok) =>
        /\ pc = "done"
        /\ result = Some(Err(<<<<"Unable to get list of open source Embark projects">>>>
                              \o list_response[1].err))
        /\ futures = <<>> /\ fetches = <<>> /\ responses = <<>>
        /\ projects = <<>> /\ stdout = <<>>
        /\ webhook_calls = <<>>
        /\ list_fetches = 1

\* C8 witness: the download failed with a network error while a webhook URL
\* was configured.
C8_Witness ==
    /\ list_response # None /\ ~list_response[1].ok
    /\ list_response[1].err = <<<<"fetch", "data.json", "network">>>>
    /\ slack_webhook_url # None /\ pc = "done"

\* C9: from the moment the webhook is requested, every project's status
\* line is on stdout (one per project, in input order, marked by its
\* outcome) and stays there; when the delivery failed the run is over and its
\* result is the delivery error.
C9_ReportBeforeNotification ==
    /\ webhook_calls # <<>> =>
          /\ Len(stdout) = Len(data)
          /\ \A k \in 1..Len(data) :
                /\ stdout[k].name = data[k]
                /\ stdout[k].mark =
                      IF futures[k].self.maintainers.ok THEN "pass" ELSE "fail"
    /\ (webhook_response # None /\ ~webhook_response[1]) =>
          /\ pc = "done"
          /\ result = Some(Err(<<<<"webhook delivery failed">>>>))

\* C9 witness: the delivery failed after two status lines were printed.
C9_Witness ==
    /\ webhook_response = Some(FALSE)
    /\ Len(stdout) = 2 /\ stdout[1].mark = "pass" /\ stdout[2].mark = "fail"

\* C10: a `one` run never requests data.json or the webhook, has exactly one
\* future, for the named project, prints at most one line, and when it is
\* over it has printed exactly one line, for that project, and its result is
\* Ok iff the project's outcome is Ok.
C10_OneValidatesNamedProject ==
    mode = "one" =>
        /\ webhook_calls = <<>> /\ list_fetches = 0 /\ list_response = None
        /\ Len(futures) <= 1 /\ Len(stdout) <= 1
        /\ pc # "start" =>
              Len(futures) = 1 /\ futures[1].self.name = project_name[1]
        /\ pc = "done" =>
              /\ Len(stdout) = 1
              /\ stdout[1].name = project_name[1]
              /\ stdout[1].mark =
                    IF futures[1].self.maintainers.ok THEN "pass" ELSE "fail"
              /\ result # None
              /\ result[1].ok <=> futures[1].self.maintainers.ok

\* C10 witness: a `one` run is over with an error after `main` and `master`
\* both failed.
C10_Witness ==
    /\ mode = "one" /\ pc = "done"
    /\ fetches[1]["master"] = 1
    /\ ~futures[1].self.maintainers.ok /\ ~result[1].ok

\* C10 witness: a `one` run is over with success.
C10_WitnessOk ==
    /\ mode = "one" /\ pc = "done" /\ result = Some(Ok({}))
\* The text has a rule line whose pattern is `*`.
HasStarRule(text) ==
    \E n \in 1..Len(text) : text[n] # <<>> /\ text[n][1] = "*"

\* C11: for a future that is done and went on with a fetched text: if the
\* text parses and has no `*` rule the outcome is the "No maintainers were
\* found" error; if the text does not parse the outcome is the parse error
\* under "Unable to determine maintainers"; an Err outcome never carries a
\* maintainer set. A future whose fetches all failed carries the fetch error
\* and no parse context.
C11_ClassificationAfterFetch ==
    \A k \in 1..Len(futures) :
        LET m == futures[k].self.maintainers
            u == UsedResponse(k)
        IN  /\ ~m.ok => m.val = {}
            /\ (futures[k].pc = "done" /\ u[1].ok) =>
                  LET parsed == CodeOwners_new(u[1].text)
                  IN  /\ (parsed.ok /\ ~HasStarRule(u[1].text)) =>
                            m = Err(<<<<"No maintainers were found for * the CODEOWNERS file">>>>)
                      /\ ~parsed.ok =>
                            /\ ~m.ok
                            /\ m.err = <<<<"Unable to determine maintainers">>>>
                                        \o parsed.err
                      /\ (parsed.ok /\ HasStarRule(u[1].text)) => m.ok
            /\ (futures[k].pc = "done" /\ ~u[1].ok) =>
                  /\ ~m.ok /\ Len(m.err) = 1 /\ m.err[1][1] = "fetch"

\* C11 witness: one future fetched a text whose second line has no owner
\* (after a valid `*` line), the other a text without a `*` rule.
C11_Witness ==
    /\ Len(futures) = 2 /\ futures[1].pc = "done" /\ futures[2].pc = "done"
    /\ UsedResponse(1) =
          Some([ok |-> TRUE, text |-> << <<"*", "@alice">>, <<"docs">> >>])
    /\ futures[1].self.maintainers.err[1] = <<"Unable to determine maintainers">>
    /\ UsedResponse(2) = Some([ok |-> TRUE, text |-> << <<"docs", "@bob">> >>])
    /\ ~futures[2].self.maintainers.ok
\* The positions of the failed projects, and the rank of one among them.
FailedPositions == {k \in 1..Len(futures) : ~futures[k].self.maintainers.ok}
FailedRank(k) == Cardinality({j \in FailedPositions : j <= k})

\* C12: the payload handed to the webhook is the head text, a divider, one
\* text block per failed project in the order of the project list (naming
\* the project and carrying its cause chain), a divider and the foot text:
\* (number of failed projects) + 4 blocks, none of them for a passing project.
C12_NotificationPayload ==
    webhook_calls # <<>> =>
        LET blocks == webhook_calls[1].blocks
            n == Cardinality(FailedPositions)
        IN  /\ Len(blocks) = n + 4
            /\ blocks[1] = [type |-> "Text", text |-> "head", name |-> "",
                            error |-> <<>>]
            /\ blocks[2].type = "Divider"
            /\ blocks[n + 3].type = "Divider"
            /\ blocks[n + 4] = [type |-> "Text", text |-> "foot", name |-> "",
                                error |-> <<>>]
            /\ \A k \in FailedPositions :
                  LET b == blocks[2 + FailedRank(k)]
                      e == futures[k].self.maintainers.err
                  IN  /\ b.type = "Text" /\ b.text = "project"
                      /\ b.name = futures[k].self.name
                      /\ Len(b.error) = Len(e)
                      /\ \A c \in 1..Len(e) : b.error[c].msg = e[c]

\* C12 witness: of two differently named projects the first passed and the
\* second failed; the payload has five blocks, the third for the second.
C12_Witness ==
    /\ webhook_calls # <<>> /\ Len(futures) = 2
    /\ futures[1].self.name # futures[2].self.name
    /\ futures[1].self.maintainers.ok /\ ~futures[2].self.maintainers.ok
    /\ Len(webhook_calls[1].blocks) = 5
    /\ webhook_calls[1].blocks[3].name = futures[2].self.name

\* C12 witness: two differently named projects failed with different errors;
\* the payload has six blocks.
C12_WitnessTwoFailed ==
    /\ webhook_calls # <<>> /\ Len(futures) = 2
    /\ futures[1].self.name # futures[2].self.name
    /\ ~futures[1].self.maintainers.ok /\ ~futures[2].self.maintainers.ok
    /\ futures[1].self.maintainers # futures[2].self.maintainers
    /\ Len(webhook_calls[1].blocks) = 6
\* The phases of a run: collecting (the project list), validating,
\* reporting, notifying, terminal.
Phase ==
    CASE pc \in {"start", "download"} -> 1
      [] pc = "join" -> 2
      [] pc = "print" -> 3
      [] pc = "send" -> 4
      [] pc = "done" -> 5

\* C13: a run of `all` only moves forward through collecting, validating,
\* reporting, notifying, terminal, entering validating only from collecting,
\* reporting only from validating and notifying only from reporting. A
\* status line is printed only in the reporting phase, when no future is
\* pending, and never shows the "not yet validated" error; the webhook is
\* requested only when reporting has printed every line.
C13_PhaseOrder ==
    [][ mode = "all" =>
          /\ Phase' >= Phase
          /\ (Phase' = 2 /\ Phase # 2) => Phase = 1
          /\ (Phase' = 3 /\ Phase # 3) => Phase = 2
          /\ (Phase' = 4 /\ Phase # 4) => Phase = 3
          /\ stdout' # stdout =>
                /\ Phase = 3 /\ Phase' = 3
                /\ \A k \in 1..Len(futures) : futures[k].pc = "done"
                /\ Len(stdout') = Len(stdout) + 1
                /\ stdout'[Len(stdout')].errors #
                      <<[depth |-> 0,
                         msg |-> <<"This property has not yet been validated">>]>>
          /\ webhook_calls' # webhook_calls =>
                /\ Phase = 3 /\ Phase' = 4
                /\ Len(stdout) = Len(futures)
                /\ \A k \in 1..Len(webhook_calls'[1].blocks) :
                      webhook_calls'[1].blocks[k].error #
                        <<[depth |-> 0,
                           msg |-> <<"This property has not yet been validated">>]>>
      ]_vars

\* C13 witness: an `all` run has reached the notifying phase after printing
\* two lines, the second project having finished first.
C13_Witness ==
    /\ mode = "all" /\ pc = "send"
    /\ Len(stdout) = 2 /\ completed = <<2, 1>>
\* C14: a future has requested `master` only if its `main` response has
\* arrived. While the run is joining, every future that awaits a response can
\* take it, whatever the other futures are waiting for: a future awaiting
\* `main` can go on to request `master` or to its outcome, and a future
\* awaiting `master` can go on to its outcome.
C14_SequentialWithinParallelAcross ==
    \A k \in 1..Len(futures) :
        /\ fetches[k]["master"] > 0 => responses[k]["main"] # None
        /\ futures[k].pc = "master" =>
              responses[k]["main"] # None /\ responses[k]["master"] = None
        /\ (pc = "join" /\ futures[k].pc = "main") =>
              /\ ENABLED (MainResponse(k) /\ futures'[k].pc = "master"
                              /\ fetches'[k]["master"] = 1)
              /\ ENABLED (MainResponse(k) /\ futures'[k].pc = "done")
        /\ (pc = "join" /\ futures[k].pc = "master") =>
              ENABLED (MasterResponse(k) /\ futures'[k].pc = "done")

\* C14 witness: the first project still awaits its `main` response while the
\* second has been through `main` and `master` and has its outcome.
C14_Witness ==
    /\ pc = "join" /\ Len(futures) = 2
    /\ futures[1].pc = "main" /\ responses[1]["main"] = None
    /\ futures[2].pc = "done" /\ fetches[2]["master"] = 1
    /\ futures[2].self.maintainers.ok
\* The number of CODEOWNERS requests made so far by the futures 1..n.
RECURSIVE OwnershipFetches(_)
OwnershipFetches(n) ==
    IF n = 0 THEN 0
    ELSE fetches[n]["main"] + fetches[n]["master"] + OwnershipFetches(n - 1)

\* C15: nothing is requested twice: every future has requested each branch
\* at most once (so at most two CODEOWNERS files), data.json is requested at
\* most once (never by `one`), and a run of `all` over N projects has made at
\* most 2N CODEOWNERS requests, N being the length of data.json's list.
C15_NoRetries ==
    /\ list_fetches <= 1
    /\ mode = "one" => list_fetches = 0
    /\ \A k \in 1..Len(fetches) :
          /\ \A b \in {"main", "master"} : fetches[k][b] <= 1
          /\ fetches[k]["main"] + fetches[k]["master"] <= 2
    /\ Len(fetches) = Len(futures)
    /\ mode = "all" => Len(futures) = Len(data)
    /\ OwnershipFetches(Len(fetches)) <= 2 * Len(futures)

\* C15 witness: a finished `all` run over two projects in which every fetch
\* failed: one request for data.json and four for CODEOWNERS files.
C15_Witness ==
    /\ mode = "all" /\ pc = "done" /\ Len(data) = 2
    /\ list_fetches = 1
    /\ OwnershipFetches(2) = 4
    /\ \A k \in 1..2 : futures[k].self.maintainers.err[1][1] = "fetch"
\* What a future has done, as far as it shows outside the error text: where
\* it stands, what it has requested, and whether its outcome is Ok.
Control(k) ==
    [pc |-> futures[k].pc,
     fetches |-> fetches[k],
     ok |-> futures[k].self.maintainers.ok]

\* The same, computed from the fetch results with their failure kind left
\* out (a response is kept as success-with-text or failure).
ControlOf(main, master) ==
    IF main = None
    THEN [pc |-> "main", fetches |-> [b \in Branches |-> IF b = "main" THEN 1 ELSE 0],
          ok |-> FALSE]
    ELSE IF main[1].ok
    THEN [pc |-> "done", fetches |-> [b \in Branches |-> IF b = "main" THEN 1 ELSE 0],
          ok |-> CodeOwners_new(main[1].text).ok
                 /\ HasStarRule(main[1].text)]
    ELSE IF master = None
    THEN [pc |-> "master", fetches |-> [b \in Branches |-> 1], ok |-> FALSE]
    ELSE [pc |-> "done", fetches |-> [b \in Branches |-> 1],
          ok |-> master[1].ok /\ CodeOwners_new(master[1].text).ok
                 /\ HasStarRule(master[1].text)]

\* C16: what a run does is a function of its fetch results with the failure
\* kind left out, so two runs that differ only in failure kinds agree on it:
\* every future's position, requests and Ok/Err classification follow from
\* the kind-less results; a finished run's pass/fail result and the number of
\* webhook requests follow from the classifications and the URL; and the
\* kind shows only as the last field of a fetch error's message.
C16_FailureKindNotInControl ==
    /\ \A k \in 1..Len(futures) :
          /\ Control(k) = ControlOf(responses[k]["main"], responses[k]["master"])
          /\ LET e == futures[k].self.maintainers.err
             IN  (futures[k].pc = "done" /\ ~UsedResponse(k)[1].ok) =>
                    /\ Len(e) = 1 /\ Len(e[1]) = 3
                    /\ e[1][1] = "fetch" /\ e[1][2] = "master"
    /\ (pc = "done" /\ (mode = "all" => downloaded)) =>
          /\ result[1].ok =
                (\A k \in 1..Len(futures) :
                    ControlOf(responses[k]["main"], responses[k]["master"]).ok)
    /\ (pc \in {"send", "done"} /\ (mode = "all" => downloaded)) =>
          Len(webhook_calls) =
                IF /\ slack_webhook_url # None
                   /\ \E k \in 1..Len(futures) :
                        ~ControlOf(responses[k]["main"], responses[k]["master"]).ok
                THEN 1 ELSE 0

\* C16 witness: two projects of a finished run failed both fetches, the first
\* with `master` not found and the second with a network error; both made
\* the same requests and are classified alike.
C16_Witness ==
    /\ pc = "done" /\ Len(futures) = 2
    /\ futures[1].self.maintainers.err = <<<<"fetch", "master", "not_found">>>>
    /\ futures[2].self.maintainers.err = <<<<"fetch", "master", "network">>>>
    /\ Control(1) = Control(2)
    /\ Len(webhook_calls) = 1
\* C17: a step that prints a status line, filters the failing projects,
\* builds the notification or returns the result changes no future and no
\* joined project (name and outcome stay), and after every step each view
\* evaluated again gives what was produced before: every printed line is
\* print_status of its project, the filtered list is the has_errors
\* selection of the projects, and the payload sent is
\* slack_notification_blocks of that list.
C17_ViewsAreReadOnly ==
    [][ /\ (\/ stdout' # stdout
            \/ problem_projects' # problem_projects
            \/ webhook_calls' # webhook_calls
            \/ result' # result) =>
              /\ futures' = futures
              /\ projects' = projects
        /\ \A k \in 1..Len(stdout') :
              /\ stdout'[k] = print_status(projects'[k])
              /\ stdout'[k].name = futures'[k].self.name
              /\ (stdout'[k].mark = "pass") = futures'[k].self.maintainers.ok
        /\ pc' \in {"send", "done"} /\ mode = "all" =>
              problem_projects' = SelectSeq(projects', has_errors)
        /\ webhook_calls' # <<>> =>
              webhook_calls'[1].blocks =
                  slack_notification_blocks(problem_projects')
      ]_vars

\* C17 witness: a run is over after printing a passing and a failing
\* project, filtering and requesting the webhook.
C17_Witness ==
    /\ pc = "done" /\ Len(stdout) = 2
    /\ stdout[1].mark = "fail" /\ stdout[2].mark = "pass"
    /\ Len(problem_projects) = 1 /\ Len(webhook_calls) = 1
    /\ webhook_response = Some(TRUE)

\* The projects of the state: those held by the futures, the joined ones and
\* the ones filtered as failing.
AllProjects ==
    {futures[k].self : k \in 1..Len(futures)}
    \cup {projects[k] : k \in 1..Len(projects)}
    \cup {problem_projects[k] : k \in 1..Len(problem_projects)}

\* C18: for every project of the state, unchecked, validated Ok or validated
\* Err: has_errors holds iff errors is not empty iff errors_to_string is Some
\* (indented or not); errors has at most one element; print_status takes one
\* of its two printing branches; and a project with has_errors gets a block
\* from slack_project_block. No printed line is the unreachable one, and the
\* payload has a block for every filtered project.
C18_ViewsAgree ==
    /\ \A p \in AllProjects :
          LET es == errors(p)
              mark == print_status(p).mark
          IN  /\ has_errors(p) <=> es # <<>>
              /\ es # <<>> <=> errors_to_string(p, TRUE) # None
              /\ es # <<>> <=> errors_to_string(p, FALSE) # None
              /\ Len(es) <= 1
              /\ mark \in {"pass", "fail"}
              /\ mark = "fail" <=> has_errors(p)
              /\ has_errors(p) => slack_project_block(p) # None
    /\ \A k \in 1..Len(stdout) : stdout[k].mark \in {"pass", "fail"}
    /\ \A c \in 1..Len(webhook_calls) :
          Len(webhook_calls[c].blocks) = Len(problem_projects) + 4

\* C18 witness: of two projects one is still unchecked and the other was
\* validated with an error.
C18_Witness ==
    /\ Len(futures) = 2
    /\ futures[1].pc # "done"
    /\ futures[1].self.maintainers.err =
          <<<<"This property has not yet been validated">>>>
    /\ futures[2].pc = "done" /\ ~futures[2].self.maintainers.ok

\* C18 witness: of two projects one is still unchecked and the other was
\* validated Ok.
C18_WitnessOk ==
    /\ Len(futures) = 2
    /\ futures[2].pc # "done"
    /\ futures[1].pc = "done" /\ futures[1].self.maintainers.ok
\* C19: when everything awaited eventually returns, the run eventually is
\* over with a result and with every future done. There is no timeout: a
\* future leaves its wait only by receiving the response it waits for, and
\* as long as a future waits the run is still joining, with nothing printed,
\* filtered, sent or returned.
C19_TerminatesIffFetchesReturn ==
    /\ <>(/\ pc = "done" /\ result # None
          /\ \A k \in 1..Len(futures) :
                futures[k].pc = "done"
                /\ futures[k].self.maintainers #
                      Err(<<<<"This property has not yet been validated">>>>))
    /\ [](\A k \in 1..Len(futures) :
            futures[k].pc # "done" =>
                /\ pc = "join" /\ result = None
                /\ stdout = <<>> /\ webhook_calls = <<>>)
    /\ [][\A k \in 1..Len(futures) :
            futures'[k].pc # futures[k].pc =>
                \/ futures[k].pc = "main"
                   /\ responses[k]["main"] = None /\ responses'[k]["main"] # None
                \/ futures[k].pc = "master"
                   /\ responses[k]["master"] = None
                   /\ responses'[k]["master"] # None]_vars

\* C19 witness: an `all` run over two projects is over after the list, four
\* CODEOWNERS requests and the webhook have all returned.
C19_Witness ==
    /\ mode = "all" /\ pc = "done" /\ Len(futures) = 2
    /\ \A k \in 1..2 : futures[k].pc = "done" /\ fetches[k]["master"] = 1
    /\ webhook_response # None /\ result # None

\* C19 witness: one future has its outcome, the other still waits for
\* `master`, and the run is still joining.
C19_WitnessWaiting ==
    /\ mode = "all" /\ pc = "join" /\ Len(futures) = 2
    /\ futures[1].pc = "done" /\ futures[2].pc = "master"
====
